---- MODULE Spec2Model ----
(***************************************************************************)
(* Model of the incremental response processor of app.py: the generator    *)
(* chat_with_qwen (conversation builder, stream segmenter, transcript      *)
(* accumulator) and its wiring to the Gradio chatbot component.            *)
(*                                                                         *)
(* Text is a sequence of one-character strings, so that the substring test *)
(* `marker in content` is a real substring search.  A Turn is the pair     *)
(* <<user_msg, bot_msg>> that the code stores as [message, ""].            *)
(***************************************************************************)
EXTENDS Integers, Sequences, FiniteSets, TLC

\* Bounds of the model.
MaxFrags == 4    \* chunks pulled from the engine over one session
MaxTurns == 3    \* submissions over one session

\* ------------------------------------------------------------------------
\* Literals of the program
\* ------------------------------------------------------------------------
ThinkStart == <<"<", "t", "h", "i", "n", "k", ">">>
ThinkEnd == <<"<", "/", "t", "h", "i", "n", "k", ">">>

\* The policy preamble is opaque to the processor: one token.
system_prompt == <<"You are a helpful and secure AI assistant. [...] answer helpfully and thoughtfully.">>
ThinkSuffix == <<" /think">>
NoThinkSuffix == <<" /nothink">>

\* ------------------------------------------------------------------------
\* Inputs
\* ------------------------------------------------------------------------
\* Texts a user can submit.
Messages == { <<"H", "i">>, <<"B", "y", "e">> }

\* A chunk's delta: the 'content' key is missing, is None, or is a string.
NoContentKey == [kind |-> "missing", text |-> <<>>]
NoneContent == [kind |-> "none", text |-> <<>>]
Str(s) == [kind |-> "text", text |-> s]

Deltas ==
    { NoContentKey, NoneContent, Str(<<>>), Str(<<"a">>),
      Str(ThinkStart), Str(ThinkEnd),
      Str(<<"a">> \o ThinkStart), Str(ThinkEnd \o <<"a">>) }

\* Chunks for the edge cases of marker detection: markers cut in two by a
\* chunk boundary, and both markers in one chunk.
EdgeDeltas ==
    { Str(ThinkEnd),
      Str(<<"<", "t", "h", "i">>), Str(<<"n", "k", ">">>),
      Str(<<"<", "/", "t", "h">>), Str(<<"i", "n", "k", ">">>),
      Str(ThinkStart \o <<"a">> \o ThinkEnd) }

\* ------------------------------------------------------------------------
\* Pure helpers
\* ------------------------------------------------------------------------
\* Variant of Contains: the operands of `in` are swapped, so a piece of the
\* marker passes for the marker.
ContainsReversed(marker, content) ==
    \E i \in 1..(Len(marker) - Len(content) + 1) :
        SubSeq(marker, i, i + Len(content) - 1) = content

\* Python's `marker in content` for a non-empty marker.
Contains(marker, content) ==
    \E i \in 1..(Len(content) - Len(marker) + 1) :
        SubSeq(content, i, i + Len(marker) - 1) = marker

\* Lines 118-122: content = "" unless the key is there and is not None.
Extract(delta) ==
    IF delta.kind = "text" THEN delta.text ELSE <<>>

\* Lines 98-100: one user/assistant pair per turn of the history, in order.
RECURSIVE HistoryMessages(_)
HistoryMessages(hist) ==
    IF hist = <<>> THEN <<>>
    ELSE << [role |-> "user", content |-> Head(hist)[1]],
            [role |-> "assistant", content |-> Head(hist)[2]] >>
         \o HistoryMessages(Tail(hist))

\* Variant of BuildMessages: the placeholder turn is appended to the history
\* before the request is built from it.
BuildMessagesAfterAppend(hist, msg, mode) ==
    << [role |-> "system",
        content |-> IF mode THEN system_prompt \o ThinkSuffix
                            ELSE system_prompt \o NoThinkSuffix] >>
    \o HistoryMessages(Append(hist, <<msg, <<>>>>))
    \o << [role |-> "user", content |-> msg] >>

\* Lines 93-102: the request handed to the engine.
BuildMessages(hist, msg, mode) ==
    << [role |-> "system",
        content |-> IF mode THEN system_prompt \o ThinkSuffix
                            ELSE system_prompt \o NoThinkSuffix] >>
    \o HistoryMessages(hist)
    \o << [role |-> "user", content |-> msg] >>

\* Variants of Segment with one slip each.
\* The mode flag is not consulted when looking for the start marker.
SegmentIgnoreMode(thinking, mode, content) ==
    IF content = <<>>
    THEN [class |-> "dropped", thinking |-> thinking]
    ELSE IF thinking \/ Contains(ThinkStart, content)
         THEN [class |-> "reasoning",
               thinking |-> IF ~thinking THEN TRUE
                            ELSE IF Contains(ThinkEnd, content) THEN FALSE
                            ELSE thinking]
         ELSE [class |-> "visible", thinking |-> thinking]

\* The end marker is never recognised (the start marker is tested twice).
SegmentNoEnd(thinking, mode, content) ==
    IF content = <<>>
    THEN [class |-> "dropped", thinking |-> thinking]
    ELSE IF thinking \/ (mode /\ Contains(ThinkStart, content))
         THEN [class |-> "reasoning",
               thinking |-> IF ~thinking THEN TRUE
                            ELSE IF Contains(ThinkStart, content) THEN FALSE
                            ELSE thinking]
         ELSE [class |-> "visible", thinking |-> thinking]

\* Only the chunk holding the start marker is suppressed (`is_thinking or`
\* is missing from the test of line 128).
SegmentNotSticky(thinking, mode, content) ==
    IF content = <<>>
    THEN [class |-> "dropped", thinking |-> thinking]
    ELSE IF mode /\ Contains(ThinkStart, content)
         THEN [class |-> "reasoning",
               thinking |-> IF ~thinking THEN TRUE
                            ELSE IF Contains(ThinkEnd, content) THEN FALSE
                            ELSE thinking]
         ELSE [class |-> "visible", thinking |-> thinking]

\* The `if not content: continue` of lines 123-124 is missing.
SegmentNoDrop(thinking, mode, content) ==
    IF thinking \/ (mode /\ Contains(ThinkStart, content))
    THEN [class |-> "reasoning",
          thinking |-> IF ~thinking THEN TRUE
                       ELSE IF Contains(ThinkEnd, content) THEN FALSE
                       ELSE thinking]
    ELSE [class |-> "visible", thinking |-> thinking]

\* The chunk that ends the reasoning segment falls through to lines 141-143
\* (no `continue` after line 133).
SegmentEndVisible(thinking, mode, content) ==
    IF content = <<>>
    THEN [class |-> "dropped", thinking |-> thinking]
    ELSE IF thinking \/ (mode /\ Contains(ThinkStart, content))
         THEN IF ~thinking THEN [class |-> "reasoning", thinking |-> TRUE]
              ELSE IF Contains(ThinkEnd, content)
                   THEN [class |-> "visible", thinking |-> FALSE]
                   ELSE [class |-> "reasoning", thinking |-> thinking]
         ELSE [class |-> "visible", thinking |-> thinking]

\* `if` instead of `elif` on line 132: the end marker is looked for in the
\* chunk that has just started the reasoning segment.
SegmentEndSameChunk(thinking, mode, content) ==
    IF content = <<>>
    THEN [class |-> "dropped", thinking |-> thinking]
    ELSE IF thinking \/ (mode /\ Contains(ThinkStart, content))
         THEN [class |-> "reasoning",
               thinking |-> IF Contains(ThinkEnd, content) THEN FALSE
                            ELSE TRUE]
         ELSE [class |-> "visible", thinking |-> thinking]

\* Lines 123-138: what the loop body does with one chunk's content:
\* the branch taken and the new value of is_thinking.
Segment(thinking, mode, content) ==
    IF content = <<>>
    THEN [class |-> "dropped", thinking |-> thinking]
    ELSE IF thinking \/ (mode /\ Contains(ThinkStart, content))
         THEN [class |-> "reasoning",
               thinking |-> IF ~thinking THEN TRUE
                            ELSE IF Contains(ThinkEnd, content) THEN FALSE
                            ELSE thinking]
         ELSE [class |-> "visible", thinking |-> thinking]

\* Variants of Accumulate with one slip each.
\* The chunk, not the accumulated response, is stored in the history.
AccumulateStoreContent(response, hist, content) ==
    LET r == response \o content
        h == [hist EXCEPT ![Len(hist)] = <<hist[Len(hist)][1], content>>]
    IN  [full_response |-> r, history |-> h, yielded |-> <<h>>]

\* `=` instead of `+=` on line 141.
AccumulateOverwrite(response, hist, content) ==
    LET r == content
        h == [hist EXCEPT ![Len(hist)] = <<hist[Len(hist)][1], r>>]
    IN  [full_response |-> r, history |-> h, yielded |-> <<h>>]

\* The history is yielded before it is updated.
AccumulateYieldFirst(response, hist, content) ==
    LET r == response \o content
        h == [hist EXCEPT ![Len(hist)] = <<hist[Len(hist)][1], r>>]
    IN  [full_response |-> r, history |-> h, yielded |-> <<hist>>]

\* The chunk is put in front of the accumulated response.
AccumulatePrepend(response, hist, content) ==
    LET r == content \o response
        h == [hist EXCEPT ![Len(hist)] = <<hist[Len(hist)][1], r>>]
    IN  [full_response |-> r, history |-> h, yielded |-> <<h>>]

\* Lines 141-143: append to full_response, store it in the last turn of the
\* history, yield the history.
Accumulate(response, hist, content) ==
    LET r == response \o content
        h == [hist EXCEPT ![Len(hist)] = <<hist[Len(hist)][1], r>>]
    IN  [full_response |-> r, history |-> h, yielded |-> <<h>>]

\* ------------------------------------------------------------------------
\* Reading the stream off the chunks (used by the record of ended calls and
\* by the properties; independent of Extract and Contains)
\* ------------------------------------------------------------------------
\* The text a chunk carries, read off the chunk itself.
TextOf(delta) == delta.text

\* Concatenation of the texts of the chunks of ds whose class in cs is
\* "visible", in order.
RECURSIVE VisibleConcat(_, _)
VisibleConcat(ds, cs) ==
    IF ds = <<>> THEN <<>>
    ELSE (IF Head(cs) = "visible" THEN TextOf(Head(ds)) ELSE <<>>)
         \o VisibleConcat(Tail(ds), Tail(cs))

\* ------------------------------------------------------------------------
\* State
\* ------------------------------------------------------------------------
VARIABLES
    think_mode,     \* enable_think_mode, bound into the handler (line 154)
    chatbot,        \* value of the gr.Chatbot component: what is rendered
    pc,             \* the generator: "idle", "streaming", "done", "failed"
    engine,         \* response_stream: "none", "open", "exhausted", "raised"
    message,        \* parameter message of the running call
    prior,          \* parameter history as it was when the call started
    history,        \* the list `history` of the running call
    messages,       \* the request built for the engine
    full_response,  \* local full_response
    is_thinking,    \* local is_thinking
    consumed,       \* deltas pulled from response_stream in this call
    classes,        \* branch taken for each of them
    emissions,      \* histories yielded by this call
    turns,          \* submissions so far
    pulled,         \* chunks pulled so far
    ended           \* record of the calls that have ended, oldest first

vars == << think_mode, chatbot, pc, engine, message, prior, history, messages,
           full_response, is_thinking, consumed, classes, emissions,
           turns, pulled, ended >>

Init ==
    /\ think_mode \in BOOLEAN
    /\ chatbot = <<>>
    /\ pc = "idle"
    /\ engine = "none"
    /\ message = <<>>
    /\ prior = <<>>
    /\ history = <<>>
    /\ messages = <<>>
    /\ full_response = <<>>
    /\ is_thinking = FALSE
    /\ consumed = <<>>
    /\ classes = <<>>
    /\ emissions = <<>>
    /\ turns = 0
    /\ pulled = 0
    /\ ended = <<>>

\* ------------------------------------------------------------------------
\* Actions
\* ------------------------------------------------------------------------
\* What is recorded of a call when it ends: the assistant_text it leaves in
\* its history, the visible text of its stream, whether it
\* yielded, and whether it ended inside a reasoning segment.
EndRecord ==
    [ text |-> history[Len(history)][2],
      visible |-> VisibleConcat(consumed, classes),
      yielded |-> emissions # <<>>,
      thinking |-> is_thinking ]

\* Variant of Submit: the listener is registered without a concurrency limit
\* and a submission is taken up while a stream is being drained.
SubmitWhileStreaming(msg) ==
    /\ turns < MaxTurns
    /\ message' = msg
    /\ prior' = chatbot
    /\ messages' = BuildMessages(chatbot, msg, think_mode)
    /\ history' = Append(chatbot, <<msg, <<>>>>)
    /\ engine' = "open"
    /\ full_response' = <<>>
    /\ is_thinking' = FALSE
    /\ consumed' = <<>>
    /\ classes' = <<>>
    /\ emissions' = <<>>
    /\ pc' = "streaming"
    /\ turns' = turns + 1
    /\ UNCHANGED << think_mode, chatbot, pulled, ended >>

\* Variant of Submit: is_thinking lives outside the call and line 116 is
\* missing, so the flag is carried over from the previous call.
SubmitKeepThinking(msg) ==
    /\ pc \in {"idle", "done", "failed"}
    /\ turns < MaxTurns
    /\ message' = msg
    /\ prior' = chatbot
    /\ messages' = BuildMessages(chatbot, msg, think_mode)
    /\ history' = Append(chatbot, <<msg, <<>>>>)
    /\ engine' = "open"
    /\ full_response' = <<>>
    /\ consumed' = <<>>
    /\ classes' = <<>>
    /\ emissions' = <<>>
    /\ pc' = "streaming"
    /\ turns' = turns + 1
    /\ UNCHANGED << think_mode, chatbot, pulled, ended, is_thinking >>

\* msg.submit (line 156) starts chat_with_qwen on the textbox value and the
\* chatbot value; the listener keeps Gradio's default concurrency limit of
\* one, so a submission is taken up only when no call is running.  The
\* generator then runs lines 93-116 up to its first pull.
Submit(msg) ==
    /\ pc \in {"idle", "done", "failed"}
    /\ turns < MaxTurns
    /\ message' = msg
    /\ prior' = chatbot
    /\ messages' = BuildMessages(chatbot, msg, think_mode)
    /\ history' = Append(chatbot, <<msg, <<>>>>)
    /\ engine' = "open"
    /\ full_response' = <<>>
    /\ is_thinking' = FALSE
    /\ consumed' = <<>>
    /\ classes' = <<>>
    /\ emissions' = <<>>
    /\ pc' = "streaming"
    /\ turns' = turns + 1
    /\ UNCHANGED << think_mode, chatbot, pulled, ended >>

\* Variant of Pull: line 141 runs before the segmenter, so the text of a
\* reasoning chunk is accumulated, though not yielded.
PullAccumulateReasoning(delta) ==
    /\ pc = "streaming"
    /\ pulled < MaxFrags
    /\ LET content == Extract(delta)
           seg == Segment(is_thinking, think_mode, content)
           acc == Accumulate(full_response, history, content)
       IN  /\ consumed' = Append(consumed, delta)
           /\ classes' = Append(classes, seg.class)
           /\ is_thinking' = seg.thinking
           /\ IF seg.class = "visible"
              THEN /\ full_response' = acc.full_response
                   /\ history' = acc.history
                   /\ emissions' = emissions \o acc.yielded
                   /\ chatbot' = IF acc.yielded = <<>> THEN chatbot
                                 ELSE acc.yielded[Len(acc.yielded)]
              ELSE /\ full_response' = full_response \o content
                   /\ UNCHANGED << history, emissions, chatbot >>
    /\ pulled' = pulled + 1
    /\ UNCHANGED << think_mode, pc, engine, message, prior, messages, turns,
                    ended >>

\* One iteration of the loop of lines 117-143 on the chunk the engine gives.
Pull(delta) ==
    /\ pc = "streaming"
    /\ pulled < MaxFrags
    /\ LET content == Extract(delta)
           seg == Segment(is_thinking, think_mode, content)
           acc == Accumulate(full_response, history, content)
       IN  /\ consumed' = Append(consumed, delta)
           /\ classes' = Append(classes, seg.class)
           /\ is_thinking' = seg.thinking
           /\ IF seg.class = "visible"
              THEN /\ full_response' = acc.full_response
                   /\ history' = acc.history
                   /\ emissions' = emissions \o acc.yielded
                   /\ chatbot' = IF acc.yielded = <<>> THEN chatbot
                                 ELSE acc.yielded[Len(acc.yielded)]
              ELSE UNCHANGED << full_response, history, emissions, chatbot >>
    /\ pulled' = pulled + 1
    /\ UNCHANGED << think_mode, pc, engine, message, prior, messages, turns,
                    ended >>

\* response_stream is exhausted: the for loop ends and the generator returns.
StreamEnd ==
    /\ pc = "streaming"
    /\ engine' = "exhausted"
    /\ pc' = "done"
    /\ ended' = Append(ended, EndRecord)
    /\ UNCHANGED << think_mode, chatbot, message, prior, history, messages,
                    full_response, is_thinking, consumed, classes, emissions,
                    turns, pulled >>

\* Variant of EngineFail: the error is caught, the placeholder turn is removed
\* and the generator returns normally.
EngineFailRollback ==
    /\ pc = "streaming"
    /\ engine' = "raised"
    /\ pc' = "done"
    /\ history' = prior
    /\ ended' = Append(ended, EndRecord)
    /\ UNCHANGED << think_mode, chatbot, message, prior, messages,
                    full_response, is_thinking, consumed, classes, emissions,
                    turns, pulled >>

\* The engine raises (create_chat_completion, or a pull of response_stream):
\* nothing in chat_with_qwen catches it, the generator ends with the error.
EngineFail ==
    /\ pc = "streaming"
    /\ engine' = "raised"
    /\ pc' = "failed"
    /\ ended' = Append(ended, EndRecord)
    /\ UNCHANGED << think_mode, chatbot, message, prior, history, messages,
                    full_response, is_thinking, consumed, classes, emissions,
                    turns, pulled >>

Next ==
    \/ \E msg \in Messages : Submit(msg)
    \/ \E delta \in Deltas : Pull(delta)
    \/ StreamEnd
    \/ EngineFail

Spec == Init /\ [][Next]_vars

\* The same program fed the chunks of EdgeDeltas.
NextEdge ==
    \/ \E msg \in Messages : Submit(msg)
    \/ \E delta \in EdgeDeltas : Pull(delta)
    \/ StreamEnd
    \/ EngineFail

SpecEdge == Init /\ [][NextEdge]_vars

\* ------------------------------------------------------------------------
\* Type correctness
\* ------------------------------------------------------------------------
TypeOK ==
    /\ think_mode \in BOOLEAN
    /\ pc \in {"idle", "streaming", "done", "failed"}
    /\ engine \in {"none", "open", "exhausted", "raised"}
    /\ is_thinking \in BOOLEAN
    /\ Len(classes) = Len(consumed)
    /\ turns \in 0..MaxTurns
    /\ pulled \in 0..MaxFrags

\* ------------------------------------------------------------------------
\* Vocabulary of the properties
\* ------------------------------------------------------------------------
\* A call of chat_with_qwen has started in this session.
Active == pc # "idle"

\* assistant_text of the in-flight Turn: history[-1][1].
LastText == history[Len(history)][2]

\* Positions at which marker occurs in text.
Occurrences(marker, text) ==
    { i \in 1..(Len(text) - Len(marker) + 1) :
        SubSeq(text, i, i + Len(marker) - 1) = marker }

HasStart(delta) == Occurrences(ThinkStart, TextOf(delta)) # {}
HasEnd(delta) == Occurrences(ThinkEnd, TextOf(delta)) # {}

\* Concatenation of the texts of all chunks of ds, in order.
RECURSIVE ConcatAll(_)
ConcatAll(ds) ==
    IF ds = <<>> THEN <<>> ELSE TextOf(Head(ds)) \o ConcatAll(Tail(ds))

\* Number of entries of cs equal to c.
RECURSIVE Count(_, _)
Count(cs, c) ==
    IF cs = <<>> THEN 0
    ELSE (IF Head(cs) = c THEN 1 ELSE 0) + Count(Tail(cs), c)

\* Concatenation of the texts of the first k visible chunks of this call.
RECURSIVE FirstVisible(_, _, _)
FirstVisible(ds, cs, k) ==
    IF ds = <<>> \/ k = 0 THEN <<>>
    ELSE IF Head(cs) = "visible"
         THEN TextOf(Head(ds)) \o FirstVisible(Tail(ds), Tail(cs), k - 1)
         ELSE FirstVisible(Tail(ds), Tail(cs), k)

\* ------------------------------------------------------------------------
\* C1
\* ------------------------------------------------------------------------
\* C1: at every point of a turn's stream, in either mode, assistant_text of
\* the in-flight Turn is the concatenation, in arrival order, of the texts
\* of exactly the chunks classified visible so far; reasoning chunks and
\* dropped chunks contribute nothing.
Inv_C1 ==
    Active =>
        /\ Len(classes) = Len(consumed)
        /\ LastText = VisibleConcat(consumed, classes)

\* A stream in progress that has had visible and reasoning chunks.
Wit_C1 ==
    /\ pc = "streaming"
    /\ Count(classes, "visible") >= 2
    /\ Count(classes, "reasoning") >= 1
    /\ LastText # <<>>

\* ------------------------------------------------------------------------
\* C2
\* ------------------------------------------------------------------------
\* The whole output of the turn as one text.
Flat == ConcatAll(consumed)

\* One start marker and one end marker in the output, in that order, each
\* lying inside one chunk.
SinglePair ==
    /\ Cardinality(Occurrences(ThinkStart, Flat)) = 1
    /\ Cardinality(Occurrences(ThinkEnd, Flat)) = 1
    /\ Cardinality({ i \in 1..Len(consumed) : HasStart(consumed[i]) }) = 1
    /\ Cardinality({ i \in 1..Len(consumed) : HasEnd(consumed[i]) }) = 1
    /\ \A s \in Occurrences(ThinkStart, Flat) :
           \A e \in Occurrences(ThinkEnd, Flat) : s < e

\* Flat without the span from the start marker to the end marker, markers
\* included.
OutsidePair ==
    LET s == CHOOSE i \in Occurrences(ThinkStart, Flat) : TRUE
        e == CHOOSE i \in Occurrences(ThinkEnd, Flat) : TRUE
    IN  SubSeq(Flat, 1, s - 1) \o SubSeq(Flat, e + Len(ThinkEnd), Len(Flat))

\* C2 as claimed: with think_mode on and a single well-formed marker pair,
\* the final assistant_text is all the text before the start marker followed
\* by all the text after the end marker.
Cex_C2 ==
    (pc = "done" /\ think_mode /\ SinglePair) => LastText = OutsidePair

\* Exactly one chunk holds a start marker, exactly one holds an end marker,
\* and the second comes later in the stream.
PairInTwoChunks ==
    /\ Cardinality({ i \in 1..Len(consumed) : HasStart(consumed[i]) }) = 1
    /\ Cardinality({ i \in 1..Len(consumed) : HasEnd(consumed[i]) }) = 1
    /\ \A s \in 1..Len(consumed) : \A e \in 1..Len(consumed) :
           (HasStart(consumed[s]) /\ HasEnd(consumed[e])) => s < e

\* C2 (amended): with think_mode on, when exactly one chunk holds '<think>'
\* and exactly one later chunk holds '</think>', the final assistant_text is
\* the text of the chunks before the start-marker chunk followed by the text
\* of the chunks after the end-marker chunk: both marker chunks and all
\* chunks between them are left out whole.
Thm_C2 ==
    (pc = "done" /\ think_mode /\ PairInTwoChunks) =>
        \A s \in 1..Len(consumed) : \A e \in 1..Len(consumed) :
            (HasStart(consumed[s]) /\ HasEnd(consumed[e])) =>
                LastText = ConcatAll(SubSeq(consumed, 1, s - 1))
                           \o ConcatAll(SubSeq(consumed, e + 1, Len(consumed)))

\* A finished turn with such a pair, text sharing a chunk with a marker, and
\* text surviving after the pair.
Wit_C2 ==
    /\ pc = "done"
    /\ think_mode
    /\ PairInTwoChunks
    /\ \E i \in 1..Len(consumed) :
           HasStart(consumed[i]) /\ Len(TextOf(consumed[i])) > Len(ThinkStart)
    /\ HasEnd(consumed[Len(consumed) - 1])
    /\ LastText = TextOf(consumed[Len(consumed)])
    /\ LastText # <<>>

\* ------------------------------------------------------------------------
\* C3
\* ------------------------------------------------------------------------
\* C3: with think_mode off, is_thinking is never true, no chunk is classified
\* reasoning, and the final assistant_text is the concatenation of all chunk
\* texts, literal markers included.
Inv_C3 ==
    ~think_mode =>
        /\ is_thinking = FALSE
        /\ Count(classes, "reasoning") = 0
        /\ pc = "done" => LastText = ConcatAll(consumed)

\* A finished turn with think_mode off whose answer shows both markers.
Wit_C3 ==
    /\ ~think_mode
    /\ pc = "done"
    /\ Occurrences(ThinkStart, LastText) # {}
    /\ Occurrences(ThinkEnd, LastText) # {}

\* ------------------------------------------------------------------------
\* C4
\* ------------------------------------------------------------------------
\* No chunk of the stream so far holds a marker.
NoMarkers ==
    \A i \in 1..Len(consumed) : ~HasStart(consumed[i]) /\ ~HasEnd(consumed[i])

\* C4: in a stream without markers, in either mode, every non-empty chunk is
\* classified visible and the final assistant_text is the concatenation of
\* all chunk texts.
Inv_C4 ==
    (Active /\ NoMarkers) =>
        /\ \A i \in 1..Len(consumed) :
               TextOf(consumed[i]) # <<>> => classes[i] = "visible"
        /\ pc = "done" => LastText = ConcatAll(consumed)

\* A finished marker-free turn of several non-empty chunks, think_mode on.
Wit_C4 ==
    /\ pc = "done"
    /\ think_mode
    /\ NoMarkers
    /\ Len(LastText) >= 2

\* ------------------------------------------------------------------------
\* C5
\* ------------------------------------------------------------------------
\* C5: the request of a call made with n prior Turns is 2n+2 messages: the
\* system message (preamble with ' /think' or ' /nothink'), then for each
\* prior Turn in order its user message and its assistant message, then the
\* new user message; the placeholder Turn of the call is in the history but
\* not in the request.
Inv_C5 ==
    Active =>
        LET n == Len(prior) IN
        /\ Len(messages) = 2 * n + 2
        /\ messages[1].role = "system"
        /\ messages[1].content =
               system_prompt \o (IF think_mode THEN <<" /think">>
                                               ELSE <<" /nothink">>)
        /\ \A k \in 1..n :
               /\ messages[2 * k] = [role |-> "user", content |-> prior[k][1]]
               /\ messages[2 * k + 1] =
                      [role |-> "assistant", content |-> prior[k][2]]
        /\ messages[2 * n + 2] = [role |-> "user", content |-> message]
        /\ Len(history) = n + 1
        /\ history[n + 1][1] = message

\* A call made with two prior Turns that differ in both texts.
Wit_C5 ==
    /\ Active
    /\ Len(prior) = 2
    /\ prior[1][1] # prior[2][1]
    /\ prior[1][2] # prior[2][2]
    /\ prior[1][2] # <<>>

\* ------------------------------------------------------------------------
\* C6
\* ------------------------------------------------------------------------
\* C6 as claimed: the new Turn is in the history before the first chunk is
\* pulled, and the renderer has been given a Transcript showing the user's
\* message by the time model output has arrived or the stream has ended.
Cex_C6 ==
    Active =>
        /\ Len(history) = Len(prior) + 1
        /\ history[Len(history)][1] = message
        /\ (consumed # <<>> \/ pc = "done") =>
               /\ emissions # <<>>
               /\ Len(chatbot) = Len(prior) + 1
               /\ chatbot[Len(chatbot)][1] = message

\* ------------------------------------------------------------------------
\* C7
\* ------------------------------------------------------------------------
\* C7: the emissions of a turn are as many as its visible chunks; the k-th
\* emission is the Transcript whose in-flight Turn holds the text of the
\* first k visible chunks, so each is made after the append; reasoning and
\* dropped chunks add no emission and leave assistant_text at the last
\* emitted value.
Inv_C7 ==
    Active =>
        /\ Len(emissions) = Count(classes, "visible")
        /\ \A k \in 1..Len(emissions) :
               emissions[k] =
                   Append(prior, <<message, FirstVisible(consumed, classes, k)>>)
        /\ LastText = FirstVisible(consumed, classes, Len(emissions))

\* A finished turn with chunks of all three classes and two emissions.
Wit_C7 ==
    /\ pc = "done"
    /\ Len(emissions) = 2
    /\ Count(classes, "reasoning") >= 1
    /\ Count(classes, "dropped") >= 1

Inv_C9 ==
    engine = "raised" =>
        /\ pc = "failed"
        /\ history = Append(prior, <<message, VisibleConcat(consumed, classes)>>)
        /\ LastText = IF emissions = <<>> THEN <<>>
                      ELSE emissions[Len(emissions)][Len(prior) + 1][2]

\* A failure after visible and reasoning chunks, in a session with a prior
\* Turn.
Wit_C9 ==
    /\ engine = "raised"
    /\ prior # <<>>
    /\ LastText # <<>>
    /\ Count(classes, "reasoning") >= 1

\* ------------------------------------------------------------------------
\* C10
\* ------------------------------------------------------------------------
\* The chunk carries no text: no content key, None, or the empty string.
IsEmpty(delta) == delta.kind # "text" \/ delta.text = <<>>

\* C10: pulling a chunk without text, in any segmenter state, changes
\* neither is_thinking nor assistant_text, yields nothing and does not end
\* the call.
Prop_C10 ==
    [][ ( /\ Len(consumed') = Len(consumed) + 1
          /\ IsEmpty(consumed'[Len(consumed')]) )
        => /\ is_thinking' = is_thinking
           /\ full_response' = full_response
           /\ history' = history
           /\ emissions' = emissions
           /\ chatbot' = chatbot
           /\ pc' = "streaming"
           /\ engine' = "open" ]_vars

\* A chunk without a content key was pulled inside a reasoning segment,
\* after an emission.
Wit_C10 ==
    /\ consumed # <<>>
    /\ consumed[Len(consumed)].kind = "missing"
    /\ is_thinking
    /\ emissions # <<>>

PullStep == Len(consumed') = Len(consumed) + 1

\* The chunk pulled by the step, and the branch it took.
PulledChunk == consumed'[Len(consumed')]
PulledClass == classes'[Len(classes')]

\* C12: with think_mode on, is_thinking goes from false to true exactly on a
\* non-empty chunk holding '<think>', and from true to false exactly on a
\* chunk holding '</think>'; a non-empty chunk is classified reasoning when
\* is_thinking is true or the chunk switches it to true, and visible
\* otherwise; a reasoning chunk leaves the history alone and yields nothing,
\* whatever text it carries besides the marker; a visible chunk is appended.
Prop_C12 ==
    [][ (think_mode /\ PullStep) =>
          LET d == PulledChunk
              c == PulledClass
              nonempty == TextOf(d) # <<>>
          IN  /\ (~is_thinking /\ is_thinking')
                     <=> (~is_thinking /\ nonempty /\ HasStart(d))
              /\ (is_thinking /\ ~is_thinking')
                     <=> (is_thinking /\ HasEnd(d))
              /\ nonempty =>
                     /\ c = "reasoning" <=> (is_thinking \/ HasStart(d))
                     /\ c = "visible" <=> ~(is_thinking \/ HasStart(d))
              /\ c = "reasoning" =>
                     /\ history' = history
                     /\ emissions' = emissions
                     /\ chatbot' = chatbot
              /\ c = "visible" =>
                     history'[Len(history')][2] = LastText \o TextOf(d) ]_vars

\* Inside a reasoning segment a second '<think>' was pulled, and then a chunk
\* holding '</think>' followed by text ended the segment without surfacing.
Wit_C12 ==
    /\ think_mode
    /\ pc = "streaming"
    /\ Len(consumed) = 3
    /\ HasStart(consumed[1])
    /\ HasStart(consumed[2])
    /\ consumed[3] = Str(ThinkEnd \o <<"a">>)
    /\ Count(classes, "reasoning") = 3
    /\ ~is_thinking
    /\ LastText = <<>>

\* ------------------------------------------------------------------------
\* C13
\* ------------------------------------------------------------------------
\* Whether the stream ds, read with think_mode on, ends inside a reasoning
\* segment: a segment starts at a chunk holding '<think>' and ends at a
\* later chunk holding '</think>'; chunks without text count for nothing.
RECURSIVE InSegmentAfter(_)
InSegmentAfter(ds) ==
    IF ds = <<>> THEN FALSE
    ELSE LET before == InSegmentAfter(SubSeq(ds, 1, Len(ds) - 1))
             d == ds[Len(ds)]
         IN  IF TextOf(d) = <<>> THEN before
             ELSE IF before THEN ~HasEnd(d)
             ELSE HasStart(d)

\* C13: with think_mode on, when the last two chunks together spell a start
\* marker that neither holds whole, outside a reasoning segment, both are
\* classified visible, their text is appended and no segment starts; when
\* they together spell an end marker that neither holds whole, inside a
\* reasoning segment, both are classified reasoning and the segment goes on.
Inv_C13 ==
    (think_mode /\ Active /\ Len(consumed) >= 2) =>
        LET n == Len(consumed)
            d1 == consumed[n - 1]
            d2 == consumed[n]
            joined == TextOf(d1) \o TextOf(d2)
            before == InSegmentAfter(SubSeq(consumed, 1, n - 2))
            textBefore == VisibleConcat(SubSeq(consumed, 1, n - 2),
                                        SubSeq(classes, 1, n - 2))
        IN  /\ ( /\ ~before
                 /\ ~HasStart(d1) /\ ~HasStart(d2)
                 /\ Occurrences(ThinkStart, joined) # {} )
               => /\ classes[n - 1] = "visible"
                  /\ classes[n] = "visible"
                  /\ ~is_thinking
                  /\ LastText = textBefore \o joined
            /\ ( /\ before
                 /\ ~HasEnd(d1) /\ ~HasEnd(d2)
                 /\ Occurrences(ThinkEnd, joined) # {} )
               => /\ classes[n - 1] = "reasoning"
                  /\ classes[n] = "reasoning"
                  /\ is_thinking
                  /\ LastText = textBefore

\* A finished turn whose answer shows a start marker that arrived in two
\* pieces.
Wit_C13 ==
    /\ think_mode
    /\ pc = "done"
    /\ Len(consumed) = 2
    /\ ~HasStart(consumed[1])
    /\ ~HasStart(consumed[2])
    /\ LastText = ThinkStart
    /\ Count(classes, "visible") = 2
    /\ ~is_thinking

\* ------------------------------------------------------------------------
\* C14
\* ------------------------------------------------------------------------
\* C14: in every call is_thinking is false when the first chunk is about to
\* be processed, however the previous call ended, so a first chunk with text
\* and without a marker is classified visible.
Inv_C14 ==
    /\ (pc = "streaming" /\ consumed = <<>>) => ~is_thinking
    /\ ( /\ Active
         /\ consumed # <<>>
         /\ TextOf(consumed[1]) # <<>>
         /\ ~HasStart(consumed[1])
         /\ ~HasEnd(consumed[1]) )
       => classes[1] = "visible"

\* The previous call ended inside a reasoning segment, and the first chunk
\* of the present call, which has no marker, has been appended.
Wit_C14 ==
    /\ think_mode
    /\ pc = "streaming"
    /\ ended # <<>>
    /\ ended[Len(ended)].thinking
    /\ consumed = << Str(<<"a">>) >>
    /\ classes = << "visible" >>
    /\ LastText = <<"a">>

\* ------------------------------------------------------------------------
\* C15
\* ------------------------------------------------------------------------
\* C15 as claimed: from one call to the next the Transcript grows by exactly
\* one Turn, the Turns it had staying as they were; while a call runs, only
\* the assistant_text of the last Turn changes; once the stream has ended
\* nothing changes until the next submission.
Cex_C15 ==
    [][ /\ turns' = turns + 1 =>
               /\ Len(history') = Len(history) + 1
               /\ SubSeq(history', 1, Len(history)) = history
        /\ turns' = turns =>
               /\ Len(history') = Len(history)
               /\ \A i \in 1..(Len(history) - 1) : history'[i] = history[i]
               /\ history # <<>> =>
                      history'[Len(history)][1] = history[Len(history)][1]
        /\ (turns' = turns /\ pc \in {"done", "failed"}) =>
               history' = history ]_vars

\* ------------------------------------------------------------------------
\* C16
\* ------------------------------------------------------------------------
\* C16: with think_mode on, a chunk holding both '<think>' and '</think>'
\* that arrives outside a reasoning segment is classified reasoning and
\* starts a segment that its own end marker does not end: every following
\* chunk is suppressed up to and including the next chunk holding
\* '</think>'; if there is none, is_thinking is still true and the rest of
\* the stream has added nothing to assistant_text.
Inv_C16 ==
    (think_mode /\ Active) =>
        \A i \in 1..Len(consumed) :
            ( /\ HasStart(consumed[i])
              /\ HasEnd(consumed[i])
              /\ ~InSegmentAfter(SubSeq(consumed, 1, i - 1)) )
            => /\ classes[i] = "reasoning"
               /\ \A j \in (i + 1)..Len(consumed) :
                      (\A k \in (i + 1)..(j - 1) : ~HasEnd(consumed[k]))
                      => classes[j] # "visible"
               /\ (\A k \in (i + 1)..Len(consumed) : ~HasEnd(consumed[k]))
                      => /\ is_thinking
                         /\ LastText = VisibleConcat(SubSeq(consumed, 1, i - 1),
                                                     SubSeq(classes, 1, i - 1))

\* A chunk with both markers opened the stream, the next chunk was
\* suppressed, a later '</think>' ended the segment and the chunk after it
\* is the whole answer.
Wit_C16 ==
    /\ think_mode
    /\ pc = "done"
    /\ Len(consumed) = 4
    /\ HasStart(consumed[1]) /\ HasEnd(consumed[1])
    /\ ~HasEnd(consumed[2])
    /\ HasEnd(consumed[3])
    /\ classes = << "reasoning", "reasoning", "reasoning", "visible" >>
    /\ LastText = TextOf(consumed[4])

\* ------------------------------------------------------------------------
\* C17
\* ------------------------------------------------------------------------
\* assistant_text of the in-flight Turn as the k-th emission shows it; the
\* empty text for k = 0.
EmittedText(k) ==
    IF k = 0 THEN <<>> ELSE emissions[k][Len(emissions[k])][2]

\* C17: within a call each emitted assistant_text is the one emitted before
\* it (the empty text for the first) followed by the non-empty text of one
\* chunk of the stream: no emission repeats or shortens the answer.
Inv_C17 ==
    Active =>
        \A k \in 1..Len(emissions) :
            LET prev == EmittedText(k - 1)
                cur == EmittedText(k)
            IN  /\ Len(cur) > Len(prev)
                /\ SubSeq(cur, 1, Len(prev)) = prev
                /\ \E i \in 1..Len(consumed) :
                       /\ TextOf(consumed[i]) # <<>>
                       /\ TextOf(consumed[i])
                              = SubSeq(cur, Len(prev) + 1, Len(cur))

\* Three emissions, of chunks with different texts, with a suppressed chunk
\* in the stream.
Wit_C17 ==
    /\ Active
    /\ Len(emissions) = 3
    /\ Count(classes, "visible") = 3
    /\ Len(consumed) = 4
    /\ \E i, j \in 1..Len(consumed) :
           /\ classes[i] = "visible"
           /\ classes[j] = "visible"
           /\ TextOf(consumed[i]) # TextOf(consumed[j])

\* ------------------------------------------------------------------------
\* C18
\* ------------------------------------------------------------------------
\* The calls that ended before the present call started.
EndedBefore ==
    IF pc = "streaming" THEN ended ELSE SubSeq(ended, 1, Len(ended) - 1)

\* Those of them that yielded: the Turns of the Transcript the present call
\* was given.
PriorCalls == SelectSeq(EndedBefore, LAMBDA e : e.yielded)

====
